---- MODULE Spec2Model ----
(***************************************************************************)
(* Monitron probe engine: the scheduler's claim protocol                   *)
(* (services/worker/app/scheduler.py), the check executor, its             *)
(* state-update protocol and its alert engine                              *)
(* (services/worker/app/checks.py), the Celery task delivery               *)
(* (services/worker/app/celery_app.py, tasks.py), the in-process worker    *)
(* loop (services/worker/app/main.py) and the API's monitor edits and      *)
(* requested checks (services/api/app/routers/monitors.py), over the       *)
(* shared store (tables monitors, monitor_checks and users).               *)
(*                                                                         *)
(* Time is an integer count of clock units of 1/TicksPerSecond seconds, so *)
(* that jitter_seconds = 0.2 s is one unit.  NULL stands for a SQL NULL    *)
(* timestamp, "none" for a NULL last_outcome.                              *)
(***************************************************************************)
EXTENDS Integers, Sequences, FiniteSets, TLC

\* ------------------------------------------------------------------ bounds
NumMonitors == 2        \* rows of the monitors table
NumSchedulers == 2      \* scheduler processes
TickSeconds == 30       \* seconds the clock advances in one Tick
MaxTime == 30           \* seconds after which the clock stops
MaxClaims == 2          \* claims committed in one behaviour
MaxEdits == 1           \* API edits in one behaviour
S5Monitors == 10        \* monitors due at once in the contention scenario
AlertThreshold == 2     \* sustained_down_threshold of the alerting behaviours
AlertWindowMinutes == 1 \* sustained_down_window_minutes of the alerting behaviours
AlertClaims == 3        \* claims committed in one alerting behaviour
AlertTime == 90         \* seconds after which the clock of an alerting behaviour stops
MinStatusCode == 100    \* lowest status code a probed server answers with
MaxStatusCode == 599    \* highest status code a probed server answers with

MaxStages == 2          \* stages in a configured list other than the default one
MaxFailures == 21       \* the largest consecutive_failures a retry interval is asked for

BackoffClaims == 6      \* claims committed in one behaviour of the backoff scenario
BackoffTime == 240      \* seconds after which the clock of the backoff scenario stops

GatherMonitors == 7     \* monitors due at once for the in-process worker
GatherTime == 30        \* seconds the in-process worker is followed alone
ApiOps == 3             \* create and update requests the API is followed through
LimitMonitors == 22     \* monitors of the store in which more than fetch_limit are due
LoopRounds == 2         \* iterations of the in-process worker loop that find due monitors

\* ------------------------------------------------------- program constants
TicksPerSecond == 5
Sec(s) == s * TicksPerSecond

scheduler_claim_seconds == Sec(30)
jitter_seconds == Sec(1) \div 5
max_concurrency == 5
sustained_down_threshold == 10
sustained_down_window_minutes == 60
MinInterval == 30
DefaultInterval == 60

NULL == -1

SchedulerIds == 1..NumSchedulers
\* the interval_seconds the monitors are created with
IntervalOf(m) == IF m % 2 = 1 THEN MinInterval ELSE DefaultInterval
Outcomes == {"up", "down"}
JitterChoices == {-jitter_seconds, 0, jitter_seconds}

Min(a, b) == IF a <= b THEN a ELSE b
Max(a, b) == IF a >= b THEN a ELSE b

\* an Optional value: None, or Some(s) holding s
None == << >>
Some(s) == << s >>

\* a stage list whose unbounded stage is shorter than the stage before it
failure_retry_stages_Shorter ==
    << [attempts |-> Some(2), interval_seconds |-> 30],
       [attempts |-> Some(5), interval_seconds |-> 60],
       [attempts |-> Some(12), interval_seconds |-> 120],
       [attempts |-> None, interval_seconds |-> 60] >>

\* Settings.failure_retry_stages as configured by default
failure_retry_stages ==
    << [attempts |-> Some(2), interval_seconds |-> 30],
       [attempts |-> Some(5), interval_seconds |-> 60],
       [attempts |-> Some(12), interval_seconds |-> 120],
       [attempts |-> None, interval_seconds |-> 300] >>

\* the test of one stage in the loop of determine_failure_retry_interval
StageApplies_Below(stage, remaining) ==
    stage.attempts = None \/ remaining < stage.attempts[1]

StageApplies(stage, remaining) ==
    stage.attempts = None \/ remaining <= stage.attempts[1]

\* the loop over the stages, entered at stage k with the count remaining
RECURSIVE StageWalk(_, _, _, _)
StageWalk(stages, remaining, k, default_interval) ==
    IF k > Len(stages) THEN default_interval
    ELSE LET stage == stages[k]
         IN  IF StageApplies(stage, remaining)
             THEN Max(stage.interval_seconds, 1)
             ELSE StageWalk(stages, remaining - stage.attempts[1], k + 1,
                            default_interval)

\* determine_failure_retry_interval under the stage list configured
RetryInterval(stages, consecutive_failures, default_interval) ==
    IF consecutive_failures <= 0 THEN default_interval
    ELSE StageWalk(stages, consecutive_failures, 1, default_interval)

determine_failure_retry_interval(consecutive_failures, default_interval) ==
    RetryInterval(failure_retry_stages, consecutive_failures, default_interval)

\* schedule_next_run(monitor, outcome) at clock value t with the jitter drawn
schedule_next_run(monitor, outcome, t, jitter) ==
    LET interval_seconds ==
            IF outcome = "down"
            THEN determine_failure_retry_interval(monitor.consecutive_failures,
                                                  monitor.interval_seconds)
            ELSE monitor.interval_seconds
    IN  t + Sec(interval_seconds) + jitter

VARIABLES
    now,             \* the clock (utcnow)
    monitors,        \* table monitors: id -> row
    monitor_checks,  \* table monitor_checks: monitor_id -> its rows in commit order
    sched,           \* per scheduler: position in dispatch_due_checks
    tasks,           \* check_monitor_task messages queued or executing
    claims,          \* history: monitor_id -> the claims committed for it so far
    edits,           \* history: the number of API edits so far
    passed_over,     \* history: why a scheduler's SELECT has left out rows
                     \* whose next_run_at had come
    users,           \* table users: id -> email ("" for a row without one)
    settings,        \* the worker's Settings read by the alert engine
    emails,          \* history: the calls of send_sustained_downtime_email
    budget,          \* the claims, edits and clock time left to a behaviour
    calc,            \* the argument and the result of a function of the worker
                     \* that is followed on its own
    loop             \* the in-process worker: position in main.py's worker_loop

vars == << now, monitors, monitor_checks, sched, tasks, claims, edits, passed_over,
           users, settings, emails, budget, calc, loop >>

MonitorIds == DOMAIN monitors

\* what no step of the worker or the API writes
fixed == << users, settings, budget, calc, loop >>

NoRow == [enabled |-> FALSE, interval_seconds |-> 0, next_run_at |-> NULL,
          consecutive_failures |-> 0, last_outcome |-> "none",
          last_checked_at |-> NULL, updated_at |-> NULL, owner_id |-> NULL,
          name |-> ""]

\* Monitor(...) as the API's create_monitor stores it at clock value t
NewMonitor(interval, enabled, t) ==
    [enabled |-> enabled, interval_seconds |-> interval, next_run_at |-> t,
     consecutive_failures |-> 0, last_outcome |-> "none",
     last_checked_at |-> NULL, updated_at |-> t, owner_id |-> NULL,
     name |-> "monitor"]

\* session.commit() of a loaded object: the UPDATE carries only the columns
\* whose value differs from the value loaded
Flush(current, loaded, dirty) ==
    [f \in DOMAIN current |-> IF dirty[f] = loaded[f] THEN current[f] ELSE dirty[f]]

IdleSched == [pc |-> "poll", now |-> 0, claimed_ids |-> << >>]

\* Settings() with no mailer in the environment; of an Optional[str] field the
\* model keeps whether it is set
DefaultSettings ==
    [sustained_down_threshold |-> sustained_down_threshold,
     sustained_down_window_minutes |-> sustained_down_window_minutes,
     smtp_host |-> FALSE, alert_email_from |-> FALSE,
     smtp_username |-> FALSE, smtp_password |-> FALSE]

\* no function is followed on its own
NoCalc == [kind |-> "none"]

\* worker_loop between two iterations, none made yet
IdleLoop == [pc |-> "sleep", due |-> {}, in_flight |-> {}, rounds |-> 0]

\* the store and the processes with nothing claimed, dispatched or recorded yet
Idle ==
    /\ monitor_checks = [m \in MonitorIds |-> << >>]
    /\ sched = [s \in SchedulerIds |-> IdleSched]
    /\ tasks = {}
    /\ claims = [m \in MonitorIds |-> << >>]
    /\ edits = 0
    /\ passed_over = {}
    /\ emails = << >>
    /\ calc = NoCalc
    /\ loop = IdleLoop

Init ==
    /\ now = 0
    /\ monitors = [m \in 1..NumMonitors |-> NewMonitor(IntervalOf(m), TRUE, 0)]
    /\ Idle
    /\ users = << >>
    /\ settings = DefaultSettings
    /\ budget = [claims |-> MaxClaims, edits |-> MaxEdits, time |-> Sec(MaxTime)]

\* ---------------------------------------------------------------- scheduler
fetch_limit == max_concurrency * 4

\* rows locked FOR UPDATE by the open transaction of scheduler s
LockedBy(s) ==
    IF sched[s].pc = "txn"
    THEN {sched[s].claimed_ids[i] : i \in 1..Len(sched[s].claimed_ids)}
    ELSE {}

Locked == UNION {LockedBy(s) : s \in SchedulerIds}

\* the clock advances by one step; a claim transaction (SELECT, UPDATE and
\* COMMIT follow each other without a suspension point) does not span a step,
\* nor does the way from the commit of persist_check_result to the alert
\* engine's count
Tick ==
    /\ now + Sec(TickSeconds) <= budget.time
    /\ \A s \in SchedulerIds : sched[s].pc # "txn"
    /\ \A t \in tasks : t.pc # "alerting"
    /\ now' = now + Sec(TickSeconds)
    /\ UNCHANGED << monitors, monitor_checks, sched, tasks, claims, edits, passed_over, emails, fixed >>

\* the SELECT without FOR UPDATE SKIP LOCKED: rows locked by others are returned
DueUnlocked_NoSkipLocked(t) ==
    {m \in MonitorIds : /\ monitors[m].enabled
                        /\ monitors[m].next_run_at # NULL
                        /\ monitors[m].next_run_at <= t}

\* the SELECT without the filter on enabled
DueUnlocked_NoEnabledFilter(t) ==
    {m \in MonitorIds : /\ monitors[m].next_run_at # NULL
                        /\ monitors[m].next_run_at <= t
                        /\ m \notin Locked}

\* the SELECT without the filter on next_run_at
DueUnlocked_NoDueFilter(t) ==
    {m \in MonitorIds : /\ monitors[m].enabled
                        /\ m \notin Locked}

\* WHERE enabled IS TRUE AND next_run_at <= :now ... FOR UPDATE SKIP LOCKED
DueUnlocked(t) ==
    {m \in MonitorIds : /\ monitors[m].enabled
                        /\ monitors[m].next_run_at # NULL
                        /\ monitors[m].next_run_at <= t
                        /\ m \notin Locked}

\* ORDER BY next_run_at (ties in any order)
RECURSIVE OrderedBy(_)
OrderedBy(S) ==
    IF S = {} THEN {<< >>}
    ELSE UNION {{<< x >> \o q : q \in OrderedBy(S \ {x})} :
                   x \in {y \in S : \A z \in S :
                               monitors[y].next_run_at <= monitors[z].next_run_at}}

\* ORDER BY next_run_at DESC ... LIMIT :limit
SelectDue_Descending(t, limit) ==
    {SubSeq(q, Len(q) + 1 - Min(limit, Len(q)), Len(q)) : q \in OrderedBy(DueUnlocked(t))}

\* ... LIMIT :limit
SelectDue(t, limit) ==
    {SubSeq(q, 1, Min(limit, Len(q))) : q \in OrderedBy(DueUnlocked(t))}

\* the lengths of f[1], ..., f[n] added up
RECURSIVE SumLen(_, _)
SumLen(f, n) ==
    IF n = 0 THEN 0 ELSE Len(f[n]) + SumLen(f, n - 1)

NumClaims == SumLen(claims, Cardinality(MonitorIds))

\* why the SELECT at t leaves out rows whose next_run_at has come
PassedOver(t) ==
    {"disabled" : m \in {x \in MonitorIds : /\ ~monitors[x].enabled
                                            /\ monitors[x].next_run_at # NULL
                                            /\ monitors[x].next_run_at <= t}}
    \cup {"locked" : m \in {x \in Locked : /\ monitors[x].enabled
                                           /\ monitors[x].next_run_at <= t}}

\* claim_due_monitors, up to the result of session.exec(statement).all();
\* an empty result is rolled back and the loop sleeps until its next poll
SelectForUpdate(s) ==
    /\ sched[s].pc = "poll"
    /\ \E q \in SelectDue(now, fetch_limit) :
          /\ NumClaims + Cardinality(Locked) + Len(q) <= budget.claims
          /\ sched' = [sched EXCEPT ![s] =
                         IF q = << >>
                         THEN IdleSched
                         ELSE [pc |-> "txn", now |-> now, claimed_ids |-> q]]
    /\ passed_over' = passed_over \cup PassedOver(now)
    /\ UNCHANGED << now, monitors, monitor_checks, tasks, claims, edits, emails, fixed >>

\* the claim without the lease: next_run_at is set to now
ClaimRow_NoLease(row, t) ==
    [row EXCEPT !.next_run_at = t, !.updated_at = t]

\* the claim with a lease of scheduler_claim_seconds minutes in place of seconds
ClaimRow_MinutesLease(row, t) ==
    [row EXCEPT !.next_run_at = t + 60 * scheduler_claim_seconds, !.updated_at = t]

\* the claim that leaves next_run_at where it was: the row stays due
ClaimRow_Unmoved(row, t) ==
    [row EXCEPT !.updated_at = t]

\* the claim that also clears the failure counter
ClaimRow_ResetsCounter(row, t) ==
    [row EXCEPT !.next_run_at = t + scheduler_claim_seconds, !.updated_at = t,
                !.consecutive_failures = 0]

\* monitor.next_run_at = claim_until; monitor.updated_at = now
ClaimRow(row, t) ==
    [row EXCEPT !.next_run_at = t + scheduler_claim_seconds, !.updated_at = t]

ClaimRecord(s, m, delivered) ==
    [at |-> sched[s].now,
     dispatched |-> delivered,
     enabled |-> monitors[m].enabled,
     before |-> monitors[m].next_run_at,
     after |-> monitors'[m].next_run_at,
     nchecks |-> Len(monitor_checks[m])]

NewTask(m, c) ==
    [claim |-> c, monitor_id |-> m, pc |-> "queued",
     outcome |-> "none", completed_at |-> NULL, loaded |-> NoRow, dirty |-> NoRow,
     check |-> 0, delivery |-> 1, redelivered |-> FALSE]

\* claim_due_monitors, the loop over the rows and session.commit(), and
\* dispatch_due_checks, check_monitor_task.apply_async for every claimed id;
\* delivered = FALSE: the scheduler process dies after the commit and before
\* apply_async (killed, broker unreachable) and is restarted
CommitClaim(s, delivered) ==
    /\ sched[s].pc = "txn"
    /\ monitors' = [m \in MonitorIds |->
                      IF m \in LockedBy(s)
                      THEN Flush(monitors[m], monitors[m],
                                 ClaimRow(monitors[m], sched[s].now))
                      ELSE monitors[m]]
    /\ claims' = [m \in MonitorIds |->
                    IF m \in LockedBy(s)
                    THEN Append(claims[m], ClaimRecord(s, m, delivered))
                    ELSE claims[m]]
    /\ tasks' = IF delivered
                THEN tasks \cup {NewTask(m, Len(claims'[m])) : m \in LockedBy(s)}
                ELSE tasks
    /\ sched' = [sched EXCEPT ![s] = IdleSched]
    /\ UNCHANGED << now, monitor_checks, edits, passed_over, emails, fixed >>

\* ----------------------------------------------------------- check executor
ReplaceTask(t, u) == (tasks \ {t}) \cup {u}

\* a row of a monitor that was deleted, or never made, is NoRow
Missing(m) == monitors[m] = NoRow

\* the snapshot taken without the tests of the row
LoadSnapshot_NoTest(t) ==
    /\ t.pc = "queued"
    /\ tasks' = ReplaceTask(t, [t EXCEPT !.pc = "probing"])
    /\ UNCHANGED << now, monitors, monitor_checks, sched, claims, edits, passed_over, emails, fixed >>

\* execute_monitor_check: load_monitor_snapshot; a missing or a disabled
\* monitor ends the task
LoadSnapshot(t) ==
    /\ t.pc = "queued"
    /\ tasks' = IF monitors[t.monitor_id].enabled
                THEN ReplaceTask(t, [t EXCEPT !.pc = "probing"])
                ELSE tasks \ {t}
    /\ UNCHANGED << now, monitors, monitor_checks, sched, claims, edits, passed_over, emails, fixed >>

\* the update with the retry interval chosen from the counter as loaded,
\* before the increment
UpdateRow_CountBefore(row, outcome, completed_at, t, jitter) ==
    LET counted == [row EXCEPT
                      !.last_checked_at = completed_at,
                      !.last_outcome = outcome,
                      !.updated_at = t,
                      !.consecutive_failures =
                          IF outcome = "up" THEN 0 ELSE row.consecutive_failures + 1]
    IN  [counted EXCEPT !.next_run_at = schedule_next_run(row, outcome, t, jitter)]

\* the in-memory db_monitor of persist_check_result before session.commit()
UpdateRow(row, outcome, completed_at, t, jitter) ==
    LET counted == [row EXCEPT
                      !.last_checked_at = completed_at,
                      !.last_outcome = outcome,
                      !.updated_at = t,
                      !.consecutive_failures =
                          IF outcome = "up" THEN 0 ELSE row.consecutive_failures + 1]
    IN  [counted EXCEPT !.next_run_at = schedule_next_run(counted, outcome, t, jitter)]

\* run_http_check returns its result and persist_check_result loads the row
\* (session.get) and updates it in memory
ProbeAndLoad(t, outcome, jitter) ==
    /\ t.pc = "probing"
    /\ tasks' = ReplaceTask(t, [t EXCEPT
                    !.pc = "persisting",
                    !.outcome = outcome,
                    !.completed_at = now,
                    !.loaded = monitors[t.monitor_id],
                    !.dirty = UpdateRow(monitors[t.monitor_id], outcome, now, now, jitter)])
    /\ UNCHANGED << now, monitors, monitor_checks, sched, claims, edits, passed_over, emails, fixed >>

CheckRow(t, committed) ==
    [occurred_at |-> t.completed_at, outcome |-> t.outcome,
     claim |-> t.claim,
     enabled |-> committed.enabled,
     before |-> monitors[t.monitor_id].next_run_at,
     next_run_at |-> committed.next_run_at,
     consecutive_failures |-> committed.consecutive_failures,
     last_outcome |-> committed.last_outcome]

\* the early returns without the test of smtp_host
AlertConfigured_NoHostTest(monitor) ==
    /\ settings.sustained_down_threshold > 0
    /\ settings.sustained_down_window_minutes > 0
    /\ monitor.owner_id # NULL
    /\ settings.alert_email_from

\* maybe_send_sustained_down_alert up to the count of the window: the early
\* returns on threshold, window, owner and mailer
AlertConfigured(monitor) ==
    /\ settings.sustained_down_threshold > 0
    /\ settings.sustained_down_window_minutes > 0
    /\ monitor.owner_id # NULL
    /\ settings.smtp_host
    /\ settings.alert_email_from

\* persist_check_result: session.commit() writes the monitor row and inserts
\* the MonitorCheck row; the UPDATE waits for a scheduler's row lock.  After
\* the commit of a down result maybe_send_sustained_down_alert is entered and
\* returns at once unless threshold, window, owner and mailer are set.
\* A row that is gone is not written: session.get returns None and the
\* function returns, or the row went after session.get and the UPDATE that
\* matches no row fails the commit; the task that has so returned is kept
\* as "vanished"
PersistCommit(t) ==
    /\ t.pc = "persisting"
    /\ t.monitor_id \notin Locked
    /\ IF Missing(t.monitor_id)
       THEN /\ tasks' = ReplaceTask(t, [t EXCEPT !.pc = "vanished"])
            /\ UNCHANGED << monitors, monitor_checks >>
       ELSE LET committed == Flush(monitors[t.monitor_id], t.loaded, t.dirty)
            IN  /\ monitors' = [monitors EXCEPT ![t.monitor_id] = committed]
                /\ monitor_checks' = [monitor_checks EXCEPT ![t.monitor_id] =
                                        Append(@, CheckRow(t, committed))]
                /\ tasks' = IF t.outcome = "down" /\ AlertConfigured(committed)
                            THEN ReplaceTask(t, [t EXCEPT
                                     !.pc = "alerting",
                                     !.check = Len(monitor_checks[t.monitor_id]) + 1])
                            ELSE tasks \ {t}
    /\ UNCHANGED << now, sched, claims, edits, passed_over, emails, fixed >>

\* SELECT count(id) FROM monitor_checks WHERE monitor_id = :id AND
\* outcome = 'down' AND occurred_at >= :window_start
DownChecksInWindow(m, t) ==
    LET window_start == t - Sec(60 * settings.sustained_down_window_minutes)
    IN  Cardinality({k \in 1..Len(monitor_checks[m]) :
                        /\ monitor_checks[m][k].outcome = "down"
                        /\ monitor_checks[m][k].occurred_at >= window_start})

\* lookup_owner_email: "" stands for None
lookup_owner_email(owner_id) ==
    IF owner_id = NULL \/ owner_id \notin DOMAIN users THEN "" ELSE users[owner_id]

\* a monitor name of two lines, as the API's MonitorCreate.name: str accepts it
TwoLineName == "monitor\nof two lines"

\* EmailMessage.__setitem__ under email.policy.default: a header value with a
\* linefeed or carriage return raises ValueError
HeaderRaises(value) == value = TwoLineName

\* send_sustained_downtime_email: the Subject header is built from
\* monitor.name before the try block, and a ValueError there leaves the
\* function; inside the try block the SMTP conversation succeeds or fails,
\* a failure is logged and False is returned
send_sustained_downtime_email(monitor, delivered) ==
    IF HeaderRaises(monitor.name)
    THEN [login |-> FALSE, sent |-> FALSE, raised |-> TRUE]
    ELSE [login |-> settings.smtp_username /\ settings.smtp_password,
          sent |-> delivered, raised |-> FALSE]

\* the edge with >= in place of ==
AtThreshold_OrAbove(down_checks) == down_checks >= settings.sustained_down_threshold

\* if down_checks != threshold: return
AtThreshold(down_checks) == down_checks = settings.sustained_down_threshold

\* maybe_send_sustained_down_alert from the count of the window on
CountAndSend(t, delivered) ==
    /\ t.pc = "alerting"
    /\ LET down_checks == DownChecksInWindow(t.monitor_id, now)
           recipient == lookup_owner_email(monitors[t.monitor_id].owner_id)
       IN  IF ~AtThreshold(down_checks) \/ recipient = ""
           THEN delivered /\ UNCHANGED emails
           ELSE emails' = Append(emails,
                    [monitor_id |-> t.monitor_id, check |-> t.check,
                     rows |-> Len(monitor_checks[t.monitor_id]),
                     down_checks |-> down_checks, recipient |-> recipient]
                    @@ send_sustained_downtime_email(monitors[t.monitor_id],
                                                     delivered))
    /\ tasks' = tasks \ {t}
    /\ UNCHANGED << now, monitors, monitor_checks, sched, claims, edits, passed_over, fixed >>

\* a worker whose death in persist_check_result leaves the UPDATE of the
\* monitor row behind without the INSERT of the check row
WorkerDies_HalfCommit(t) ==
    /\ tasks' = tasks \ {t}
    /\ monitors' = IF t.pc = "persisting" /\ t.monitor_id \notin Locked
                   THEN [monitors EXCEPT ![t.monitor_id] =
                           Flush(monitors[t.monitor_id], t.loaded, t.dirty)]
                   ELSE monitors
    /\ UNCHANGED << now, monitor_checks, sched, claims, edits, passed_over, emails, fixed >>

\* the worker dies or the probe is cancelled: the task ends where it is
WorkerDies(t) ==
    /\ tasks' = tasks \ {t}
    /\ UNCHANGED << now, monitors, monitor_checks, sched, claims, edits, passed_over, emails, fixed >>

\* task_acks_late = True: the message of check_monitor_task is acknowledged
\* when the task returns; while the first run is unacknowledged (its worker
\* lost the broker connection or was killed) the broker delivers the message
\* a second time, and run_monitor_check_sync starts again from the id alone
Redeliver(t) ==
    /\ t.delivery = 1 /\ ~t.redelivered
    /\ tasks' = (tasks \ {t}) \cup
                   {[t EXCEPT !.redelivered = TRUE],
                    [NewTask(t.monitor_id, t.claim) EXCEPT !.delivery = 2]}
    /\ UNCHANGED << now, monitors, monitor_checks, sched, claims, edits, passed_over, emails, fixed >>

\* ---------------------------------------------------------------------- API
\* update_monitor with payload {"enabled": b}; the UPDATE waits for a row lock
UpdateEnabled(m, b) ==
    /\ m \notin Locked
    /\ edits < budget.edits
    /\ edits' = edits + 1
    /\ monitors' = [monitors EXCEPT ![m] =
                      Flush(monitors[m], monitors[m],
                            [monitors[m] EXCEPT !.enabled = b, !.updated_at = now])]
    /\ UNCHANGED << now, monitor_checks, sched, tasks, claims, passed_over, emails, fixed >>

\* delete_monitor: session.delete(monitor) and commit; the DELETE waits for a
\* row lock, and a monitor with MonitorCheck rows is held by their foreign key
DeleteMonitor(m) ==
    /\ ~Missing(m)
    /\ m \notin Locked
    /\ monitor_checks[m] = << >>
    /\ edits < budget.edits
    /\ edits' = edits + 1
    /\ monitors' = [monitors EXCEPT ![m] = NoRow]
    /\ UNCHANGED << now, monitor_checks, sched, tasks, claims, passed_over, emails, fixed >>

\* the monitor row as run_monitor_check (POST /monitors/{id}/run) leaves it
RunRow(row, outcome, completed_at) ==
    [row EXCEPT
        !.last_checked_at = completed_at,
        !.last_outcome = outcome,
        !.updated_at = completed_at,
        !.consecutive_failures = IF outcome = "up" THEN 0 ELSE @ + 1,
        !.next_run_at = completed_at + Sec(row.interval_seconds)]

\* run_monitor_check: the API probes an enabled monitor on request and
\* commits the monitor row and a MonitorCheck row in one session.commit();
\* no claim, no task and no alert engine take part; the UPDATE waits for a
\* row lock
RunMonitorCheck(m, outcome) ==
    /\ monitors[m].enabled
    /\ m \notin Locked
    /\ edits < budget.edits
    /\ edits' = edits + 1
    /\ LET committed == RunRow(monitors[m], outcome, now)
       IN  /\ monitors' = [monitors EXCEPT ![m] = committed]
           /\ monitor_checks' = [monitor_checks EXCEPT ![m] = Append(@,
                   [occurred_at |-> now, outcome |-> outcome, claim |-> 0,
                    enabled |-> committed.enabled,
                    before |-> monitors[m].next_run_at,
                    next_run_at |-> committed.next_run_at,
                    consecutive_failures |-> committed.consecutive_failures,
                    last_outcome |-> committed.last_outcome])]
    /\ UNCHANGED << now, sched, tasks, claims, passed_over, emails, fixed >>

Next ==
    \/ Tick
    \/ \E s \in SchedulerIds : SelectForUpdate(s)
    \/ \E s \in SchedulerIds, delivered \in BOOLEAN : CommitClaim(s, delivered)
    \/ \E t \in tasks : LoadSnapshot(t)
    \/ \E t \in tasks, o \in Outcomes, j \in JitterChoices : ProbeAndLoad(t, o, j)
    \/ \E t \in tasks : PersistCommit(t)
    \/ \E t \in tasks : WorkerDies(t)
    \/ \E m \in MonitorIds : UpdateEnabled(m, ~monitors[m].enabled)
    \/ \E m \in MonitorIds, o \in Outcomes : RunMonitorCheck(m, o)

Spec == Init /\ [][Next]_vars

\* the clock runs and every scheduler loop keeps polling and finishes the
\* transaction it opened
LiveSpec ==
    /\ Spec
    /\ WF_vars(Tick)
    /\ \A s \in SchedulerIds :
          /\ WF_vars(SelectForUpdate(s))
          /\ WF_vars(\E delivered \in BOOLEAN : CommitClaim(s, delivered))

\* ------------------------------------------- scheduler claim under contention
\* S5Monitors enabled monitors, created one clock unit after the other, are
\* all due when the schedulers poll at the same time
S5Init ==
    /\ now = S5Monitors
    /\ monitors = [m \in 1..S5Monitors |-> NewMonitor(IntervalOf(m), TRUE, m)]
    /\ Idle
    /\ users = << >>
    /\ settings = DefaultSettings
    /\ budget = [claims |-> NumSchedulers * S5Monitors, edits |-> 0, time |-> S5Monitors]

\* every scheduler polls, commits its claim and dispatches; workers take the
\* dispatched tasks from the queue
S5Next ==
    \/ \E s \in SchedulerIds : SelectForUpdate(s)
    \/ \E s \in SchedulerIds : CommitClaim(s, TRUE)
    \/ \E t \in tasks : LoadSnapshot(t)

S5Spec ==
    /\ S5Init
    /\ [][S5Next]_vars
    /\ \A s \in SchedulerIds :
          /\ WF_vars(SelectForUpdate(s))
          /\ WF_vars(CommitClaim(s, TRUE))

\* ------------------------------------------------------------- alert engine
\* Settings() with the mailer in the environment
MailerSettings ==
    [sustained_down_threshold |-> AlertThreshold,
     sustained_down_window_minutes |-> AlertWindowMinutes,
     smtp_host |-> TRUE, alert_email_from |-> TRUE,
     smtp_username |-> TRUE, smtp_password |-> TRUE]

\* MailerSettings, and MailerSettings with one field switched off or absent
AlertSettings ==
    {MailerSettings,
     [MailerSettings EXCEPT !.sustained_down_threshold = 0],
     [MailerSettings EXCEPT !.sustained_down_window_minutes = 0],
     [MailerSettings EXCEPT !.smtp_host = FALSE],
     [MailerSettings EXCEPT !.alert_email_from = FALSE],
     [MailerSettings EXCEPT !.smtp_username = FALSE],
     [MailerSettings EXCEPT !.smtp_password = FALSE]}

\* table users: user 1 with an email; no row of id 2
AlertUsers == (1 :> "owner@example.org")

\* the monitor of the alerting behaviours: enabled, created at 0
OwnedMonitor(owner) ==
    [NewMonitor(MinInterval, TRUE, 0) EXCEPT !.owner_id = owner]

\* the names of the monitor of ConfigSpec
MonitorNames == {"monitor", TwoLineName}

\* one monitor owned by user 1, the mailer configured, one scheduler running
AlertInit ==
    /\ now = 0
    /\ monitors = [m \in 1..1 |-> OwnedMonitor(1)]
    /\ Idle
    /\ users = AlertUsers
    /\ settings = MailerSettings
    /\ budget = [claims |-> AlertClaims, edits |-> 0, time |-> Sec(AlertTime)]

AlertNext ==
    \/ Tick
    \/ SelectForUpdate(1)
    \/ CommitClaim(1, TRUE)
    \/ \E t \in tasks : LoadSnapshot(t)
    \/ \E t \in tasks, o \in Outcomes : ProbeAndLoad(t, o, 0)
    \/ \E t \in tasks : PersistCommit(t)
    \/ \E t \in tasks, delivered \in BOOLEAN : CountAndSend(t, delivered)

AlertSpec == AlertInit /\ [][AlertNext]_vars

\* one monitor under any of the AlertSettings and owned by user 1, or under
\* MailerSettings and without an owner, with an owner that has no row, or
\* owned by user 1 and named in two lines
ConfigInit ==
    /\ now = 0
    /\ \E cfg \in AlertSettings, owner \in {NULL, 1, 2}, name \in MonitorNames :
          /\ cfg = MailerSettings \/ owner = 1
          /\ name = "monitor" \/ (cfg = MailerSettings /\ owner = 1)
          /\ settings = cfg
          /\ monitors = [m \in 1..1 |-> [OwnedMonitor(owner) EXCEPT !.name = name]]
    /\ Idle
    /\ users = AlertUsers
    /\ budget = [claims |-> MaxClaims, edits |-> 0, time |-> Sec(MaxTime)]

ConfigSpec == ConfigInit /\ [][AlertNext]_vars

\* ------------------------------------------------- duplicate task delivery
\* one scheduler, workers that may die, and a broker that may deliver a task
\* message twice
RedeliveryNext ==
    \/ Tick
    \/ SelectForUpdate(1)
    \/ CommitClaim(1, TRUE)
    \/ \E t \in tasks : LoadSnapshot(t)
    \/ \E t \in tasks, o \in Outcomes : ProbeAndLoad(t, o, 0)
    \/ \E t \in tasks : PersistCommit(t)
    \/ \E t \in tasks : WorkerDies(t)
    \/ \E t \in tasks : Redeliver(t)

RedeliverySpec == Init /\ [][RedeliveryNext]_vars

\* ------------------------------------------------------------ timely checks
\* the lease of the claim that dispatched task t is still running at clock
\* value time
InLease(t, time) ==
    time < claims[t.monitor_id][t.claim].at + scheduler_claim_seconds

\* the clock advances only past checks that have ended: every dispatched
\* check commits (or is dropped) before the lease of its claim runs out
TimelyTick == Tick /\ \A t \in tasks : InLease(t, now')

\* the services with every check ending within its lease and every task
\* message delivered once
TimelyNext ==
    \/ TimelyTick
    \/ \E s \in SchedulerIds : SelectForUpdate(s)
    \/ \E s \in SchedulerIds, delivered \in BOOLEAN : CommitClaim(s, delivered)
    \/ \E t \in tasks : LoadSnapshot(t)
    \/ \E t \in tasks, o \in Outcomes, j \in JitterChoices : ProbeAndLoad(t, o, j)
    \/ \E t \in tasks : PersistCommit(t)
    \/ \E t \in tasks : WorkerDies(t)
    \/ \E m \in MonitorIds : UpdateEnabled(m, ~monitors[m].enabled)
    \/ \E m \in MonitorIds, o \in Outcomes : RunMonitorCheck(m, o)

TimelySpec == Init /\ [][TimelyNext]_vars

\* -------------------------------------------------- functions on their own
\* every variable but calc
store == << now, monitors, monitor_checks, sched, tasks, claims, edits, passed_over,
            users, settings, emails, budget, loop >>

\* an empty store with nothing running, for the behaviours that follow one
\* function
Quiet ==
    /\ now = 0
    /\ monitors = << >>
    /\ monitor_checks = << >>
    /\ sched = [s \in SchedulerIds |-> IdleSched]
    /\ tasks = {}
    /\ claims = << >>
    /\ edits = 0
    /\ passed_over = {}
    /\ emails = << >>
    /\ users = << >>
    /\ settings = DefaultSettings
    /\ budget = [claims |-> 0, edits |-> 0, time |-> 0]
    /\ loop = IdleLoop

\* ------------------------------------------------------------ run_http_check
\* what client.request can end with: a response (any status; redirects are
\* not followed) after elapsed_ms, an exception under httpx.RequestError
\* (TimeoutException is one of them), or another exception; str(exc) is empty
\* for some timeouts
StatusCodes == MinStatusCode..MaxStatusCode
ElapsedMs == {0, 42, 1200}
RequestErrors ==
    {[class |-> "ConnectError", text |-> "All connection attempts failed"],
     [class |-> "ConnectTimeout", text |-> ""],
     [class |-> "ReadTimeout", text |-> ""],
     [class |-> "TooManyRedirects", text |-> "Exceeded maximum allowed redirects."],
     [class |-> "UnsupportedProtocol", text |-> "Request URL is missing a protocol."]}
OtherErrors == {[class |-> "InvalidURL", text |-> "Invalid port"]}

Responses ==
    {[kind |-> "response", status_code |-> c, elapsed_ms |-> e] :
        c \in StatusCodes, e \in ElapsedMs}
    \cup {[kind |-> "request_error", exc |-> x] : x \in RequestErrors}
    \cup {[kind |-> "error", exc |-> x] : x \in OtherErrors}

\* the test of the status with <= 400 at the upper end
OutcomeOf_UpTo400(status_code) ==
    IF 200 <= status_code /\ status_code <= 400 THEN "up" ELSE "down"

\* outcome = "up" if 200 <= response.status_code < 400 else "down"
OutcomeOf(status_code) ==
    IF 200 <= status_code /\ status_code < 400 THEN "up" ELSE "down"

\* an except branch that also takes the time
ErrorResult_Timed(exc, elapsed_ms) ==
    [outcome |-> "down", status_code |-> NULL, latency_ms |-> elapsed_ms,
     error_message |-> Some(exc.text)]

\* the except branch: only error_message = str(exc) is set
ErrorResult(exc, elapsed_ms) ==
    [outcome |-> "down", status_code |-> NULL, latency_ms |-> NULL,
     error_message |-> Some(exc.text)]

\* the CheckResult of run_http_check; completed_at is left to the callers
run_http_check(response) ==
    IF response.kind = "response"
    THEN [outcome |-> OutcomeOf(response.status_code),
          status_code |-> response.status_code,
          latency_ms |-> response.elapsed_ms,
          error_message |-> None]
    ELSE ErrorResult(response.exc, 0)

\* MonitorCheck(...) of persist_check_result from the CheckResult
MonitorCheckOf(result) ==
    [outcome |-> result.outcome, status_code |-> result.status_code,
     latency_ms |-> result.latency_ms, error_message |-> result.error_message]

ProbeInit ==
    /\ Quiet
    /\ \E r \in Responses : calc = [kind |-> "probe", pc |-> "request", response |-> r]

\* run_http_check returns its CheckResult, or raises what it does not catch
RunHttpCheck ==
    /\ calc.kind = "probe" /\ calc.pc = "request"
    /\ calc' = IF calc.response.kind = "error"
               THEN [calc EXCEPT !.pc = "raised"]
               ELSE [kind |-> "probe", pc |-> "result", response |-> calc.response,
                     result |-> run_http_check(calc.response)]
    /\ UNCHANGED store

\* persist_check_result builds the MonitorCheck row from the CheckResult
BuildCheckEntry ==
    /\ calc.kind = "probe" /\ calc.pc = "result"
    /\ calc' = [kind |-> "probe", pc |-> "recorded", response |-> calc.response,
                result |-> calc.result, row |-> MonitorCheckOf(calc.result)]
    /\ UNCHANGED store

ProbeNext == RunHttpCheck \/ BuildCheckEntry

ProbeSpec == ProbeInit /\ [][ProbeNext]_vars

\* ----------------------------------------- determine_failure_retry_interval
\* the stages a configured list is drawn from: bounded (also with no attempts
\* at all), unbounded, and with an interval under the floor of 1 second
StageChoices ==
    {[attempts |-> a, interval_seconds |-> i] :
        a \in {None, Some(0), Some(1), Some(2)}, i \in {0, 30, 60}}

StageLists ==
    {failure_retry_stages}
    \cup UNION {[1..l -> StageChoices] : l \in 0..MaxStages}

\* Monitor.interval_seconds as the API admits it (30..86400)
DefaultIntervals == {MinInterval, 31, DefaultInterval, 300, 301, 86400}

RetryInit ==
    /\ Quiet
    /\ \E stages \in StageLists, n \in -1..MaxFailures, d \in DefaultIntervals :
          calc = [kind |-> "retry", pc |-> "call", stages |-> stages,
                  consecutive_failures |-> n, default_interval |-> d]

\* one call of determine_failure_retry_interval under the stages configured
DetermineRetryInterval ==
    /\ calc.kind = "retry" /\ calc.pc = "call"
    /\ calc' = [calc EXCEPT !.pc = "returned"] @@
               [interval |-> RetryInterval(calc.stages, calc.consecutive_failures,
                                           calc.default_interval)]
    /\ UNCHANGED store

RetrySpec == RetryInit /\ [][DetermineRetryInterval]_vars

\* ------------------------------------------------------------ staged backoff
\* one monitor that starts healthy, with jitter_seconds = 0
BackoffInit ==
    /\ now = 0
    /\ \E i \in {MinInterval, DefaultInterval} :
          monitors = [m \in {1} |-> NewMonitor(i, TRUE, 0)]
    /\ Idle
    /\ users = << >>
    /\ settings = DefaultSettings
    /\ budget = [claims |-> BackoffClaims, edits |-> 0, time |-> Sec(BackoffTime)]

\* one scheduler and the executor, every check ending before the next is
\* claimed, every probe answering up or down
BackoffNext ==
    \/ TimelyTick
    \/ SelectForUpdate(1)
    \/ CommitClaim(1, TRUE)
    \/ \E t \in tasks : LoadSnapshot(t)
    \/ \E t \in tasks, o \in Outcomes : ProbeAndLoad(t, o, 0)
    \/ \E t \in tasks : PersistCommit(t)

BackoffSpec == BackoffInit /\ [][BackoffNext]_vars

\* ------------------------------------------------------ in-process worker
\* main.py's schedule_next_run(monitor): the base interval, whatever the outcome
worker_schedule_next_run(monitor, t, jitter) ==
    t + Sec(monitor.interval_seconds) + jitter

\* the in-memory db_monitor of main.py's update_monitor_state before
\* session.commit(): every timestamp is utcnow() of the update, and a monitor
\* that is not enabled gets next_run_at = None
update_monitor_state(row, outcome, t, jitter) ==
    LET counted == [row EXCEPT
                      !.last_checked_at = t,
                      !.last_outcome = outcome,
                      !.updated_at = t,
                      !.consecutive_failures =
                          IF outcome = "up" THEN 0 ELSE row.consecutive_failures + 1]
    IN  [counted EXCEPT !.next_run_at =
            IF counted.enabled THEN worker_schedule_next_run(counted, t, jitter)
            ELSE NULL]

\* monitors.next_run_at declared without NULL
IntegrityError_Nullable(row) == FALSE

\* Monitor.next_run_at: datetime is not Optional, so the column of the table
\* that create_all makes is NOT NULL and the INSERT or UPDATE of a row with
\* next_run_at = None fails at the commit
IntegrityError(row) == row.next_run_at = NULL

\* what a commit of a monitor row and a MonitorCheck row leaves in the store
Committed(row, occurred_at, outcome) ==
    IF IntegrityError(row)
    THEN [raised |-> TRUE]
    ELSE [raised |-> FALSE, monitor |-> row,
          check |-> [occurred_at |-> occurred_at, outcome |-> outcome]]

\* the rows a check can find: any interval admitted, any count of failures
\* so far, enabled or disabled since the check was dispatched
MonitorStates ==
    {[NewMonitor(i, e, 0) EXCEPT !.consecutive_failures = n,
                                 !.last_outcome = IF n = 0 THEN "up" ELSE "down",
                                 !.last_checked_at = 0] :
        i \in {MinInterval, DefaultInterval}, e \in BOOLEAN, n \in 0..MaxFailures}

\* one probe result handed to both implementations over the same row
DispatchInit ==
    /\ Quiet
    /\ \E row \in MonitorStates, o \in Outcomes :
          calc = [kind |-> "dispatch", row |-> row, outcome |-> o,
                  executor |-> None, worker |-> None]

\* execute_monitor_check: persist_check_result(snapshot, result), jitter 0
PersistCheckResult ==
    /\ calc.kind = "dispatch" /\ calc.executor = None
    /\ calc' = [calc EXCEPT !.executor =
                  Some(Committed(UpdateRow(calc.row, calc.outcome, now, now, 0),
                                 now, calc.outcome))]
    /\ UNCHANGED store

\* perform_check: update_monitor_state(monitor.id, ...), jitter 0
UpdateMonitorState ==
    /\ calc.kind = "dispatch" /\ calc.worker = None
    /\ calc' = [calc EXCEPT !.worker =
                  Some(Committed(update_monitor_state(calc.row, calc.outcome, now, 0),
                                 now, calc.outcome))]
    /\ UNCHANGED store

DispatchNext == PersistCheckResult \/ UpdateMonitorState

DispatchSpec == DispatchInit /\ [][DispatchNext]_vars

\* get_due_monitors: the rows enabled and due, read without a lock and
\* without a claim
get_due_monitors(t) ==
    {m \in MonitorIds : /\ monitors[m].enabled
                        /\ monitors[m].next_run_at # NULL
                        /\ monitors[m].next_run_at <= t}

\* worker_loop: one iteration that finds due monitors and starts a
\* perform_check for each of them
GetDueMonitors ==
    /\ loop.pc = "sleep"
    /\ loop.rounds < LoopRounds
    /\ get_due_monitors(now) # {}
    /\ loop' = [pc |-> "gather", due |-> get_due_monitors(now),
                in_flight |-> {}, rounds |-> loop.rounds + 1]
    /\ UNCHANGED << now, monitors, monitor_checks, sched, tasks, claims, edits,
                    passed_over, emails, users, settings, budget, calc >>

\* run_with_semaphore entered with no semaphore
AcquireSemaphore_Unbounded(m) ==
    /\ loop.pc = "gather"
    /\ m \in loop.due \ loop.in_flight
    /\ loop' = [loop EXCEPT !.in_flight = @ \union {m}]
    /\ UNCHANGED << now, monitors, monitor_checks, sched, tasks, claims, edits,
                    passed_over, emails, users, settings, budget, calc >>

\* run_with_semaphore: "async with semaphore" lets the coroutine of a due
\* monitor into perform_check while fewer than max_concurrency are in it;
\* perform_check opens its client and sends the request
AcquireSemaphore(m) ==
    /\ loop.pc = "gather"
    /\ m \in loop.due \ loop.in_flight
    /\ Cardinality(loop.in_flight) < max_concurrency
    /\ loop' = [loop EXCEPT !.in_flight = @ \union {m}]
    /\ UNCHANGED << now, monitors, monitor_checks, sched, tasks, claims, edits,
                    passed_over, emails, users, settings, budget, calc >>

\* perform_check of one monitor in flight: the probe returns,
\* update_monitor_state loads the row, updates it and commits it with its
\* MonitorCheck row, and the semaphore is released; the UPDATE waits for a
\* scheduler's row lock.  A commit that fails leaves the store as it was and
\* its exception ends asyncio.gather, worker_loop and with them the process
PerformCheck(m, outcome, jitter) ==
    /\ loop.pc = "gather"
    /\ m \in loop.in_flight
    /\ m \notin Locked
    /\ LET row == update_monitor_state(monitors[m], outcome, now, jitter)
       IN  IF IntegrityError(row)
           THEN /\ loop' = [loop EXCEPT !.pc = "dead", !.due = {}, !.in_flight = {}]
                /\ UNCHANGED << monitors, monitor_checks >>
           ELSE /\ monitors' = [monitors EXCEPT ![m] = row]
                /\ monitor_checks' = [monitor_checks EXCEPT ![m] =
                      Append(@, [occurred_at |-> now, outcome |-> outcome,
                                 claim |-> 0, enabled |-> row.enabled,
                                 before |-> monitors[m].next_run_at,
                                 next_run_at |-> row.next_run_at,
                                 consecutive_failures |-> row.consecutive_failures,
                                 last_outcome |-> row.last_outcome])]
                /\ loop' = [loop EXCEPT
                              !.due = @ \ {m},
                              !.in_flight = @ \ {m},
                              !.pc = IF loop.due = {m} THEN "sleep" ELSE "gather"]
    /\ UNCHANGED << now, sched, tasks, claims, edits, passed_over, emails,
                    users, settings, budget, calc >>

\* the store under both worker implementations and the API's edits: one
\* scheduler with the executor, the in-process worker loop, jitter 0
WorkersNext ==
    \/ Tick
    \/ SelectForUpdate(1)
    \/ CommitClaim(1, TRUE)
    \/ \E t \in tasks : LoadSnapshot(t)
    \/ \E t \in tasks, o \in Outcomes : ProbeAndLoad(t, o, 0)
    \/ \E t \in tasks : PersistCommit(t)
    \/ \E m \in MonitorIds : UpdateEnabled(m, ~monitors[m].enabled)
    \/ GetDueMonitors
    \/ \E m \in MonitorIds : AcquireSemaphore(m)
    \/ \E m \in MonitorIds, o \in Outcomes : PerformCheck(m, o, 0)

WorkersSpec == Init /\ [][WorkersNext]_vars

\* ------------------------------------------- probes of one worker process
\* up to GatherMonitors monitors are due when worker_loop starts
GatherInit ==
    /\ now = 0
    /\ \E n \in 1..GatherMonitors :
          monitors = [m \in 1..n |-> NewMonitor(DefaultInterval, TRUE, 0)]
    /\ Idle
    /\ users = << >>
    /\ settings = DefaultSettings
    /\ budget = [claims |-> 0, edits |-> 0, time |-> Sec(GatherTime)]

\* worker_loop alone on the store, jitter 0
GatherNext ==
    \/ Tick
    \/ GetDueMonitors
    \/ \E m \in MonitorIds : AcquireSemaphore(m)
    \/ \E m \in MonitorIds, o \in Outcomes : PerformCheck(m, o, 0)

GatherSpec == GatherInit /\ [][GatherNext]_vars

\* ------------------------------------------------- monitors that go away
\* one scheduler, the executor, and an API that disables, enables and
\* deletes monitors while their checks are in flight
VanishNext ==
    \/ Tick
    \/ SelectForUpdate(1)
    \/ CommitClaim(1, TRUE)
    \/ \E t \in tasks : LoadSnapshot(t)
    \/ \E t \in tasks, o \in Outcomes : ProbeAndLoad(t, o, 0)
    \/ \E t \in tasks : PersistCommit(t)
    \/ \E m \in MonitorIds : ~Missing(m) /\ UpdateEnabled(m, ~monitors[m].enabled)
    \/ \E m \in MonitorIds : DeleteMonitor(m)

VanishSpec == Init /\ [][VanishNext]_vars

\* ------------------------------------------------ API create and update
MaxInterval == 86400
MinTimeout == 1
MaxTimeout == 60
DefaultTimeout == 10

\* MonitorBase.validate_interval and validate_timeout
validate_interval(value) == MinInterval <= value /\ value <= MaxInterval

validate_timeout(value) == MinTimeout <= value /\ value <= MaxTimeout

\* what a request body holds for a field: the key left out (None), or a
\* value, null (NULL) among them
IntervalInputs == {NULL, MinInterval - 1, MinInterval, DefaultInterval, MaxInterval, MaxInterval + 1}

TimeoutInputs == {NULL, MinTimeout - 1, MinTimeout, DefaultTimeout, MaxTimeout, MaxTimeout + 1}

Payloads ==
    [interval_seconds : {None} \union {Some(v) : v \in IntervalInputs},
     timeout_seconds : {None} \union {Some(v) : v \in TimeoutInputs}]

\* MonitorCreate(**body): a field left out takes its default, which is not
\* validated; null is no int; an int goes through the field's validator
MonitorCreate(payload) ==
    IF /\ payload.interval_seconds # None
          => /\ payload.interval_seconds[1] # NULL
             /\ validate_interval(payload.interval_seconds[1])
       /\ payload.timeout_seconds # None
          => /\ payload.timeout_seconds[1] # NULL
             /\ validate_timeout(payload.timeout_seconds[1])
    THEN Some([interval_seconds |-> IF payload.interval_seconds = None
                                    THEN DefaultInterval
                                    ELSE payload.interval_seconds[1],
               timeout_seconds |-> IF payload.timeout_seconds = None
                                   THEN DefaultTimeout
                                   ELSE payload.timeout_seconds[1]])
    ELSE None

\* MonitorUpdate(**body) has Optional[int] fields and no validator: every int
\* and null are admitted; update_monitor assigns every key of
\* model_dump(exclude_unset=True) to the loaded monitor
SetAttrs(monitor, payload) ==
    [interval_seconds |-> IF payload.interval_seconds = None
                          THEN monitor.interval_seconds
                          ELSE payload.interval_seconds[1],
     timeout_seconds |-> IF payload.timeout_seconds = None
                         THEN monitor.timeout_seconds
                         ELSE payload.timeout_seconds[1]]

\* monitors.interval_seconds and monitors.timeout_seconds are int, not
\* Optional: NOT NULL columns
NotNullViolation(monitor) ==
    monitor.interval_seconds = NULL \/ monitor.timeout_seconds = NULL

\* no monitor created yet, no request made
ApiInit ==
    /\ Quiet
    /\ calc = [kind |-> "api", monitor |-> None, status |-> 0, ops |-> 0]

\* POST /monitors: 422 from the request model, or the row is stored
CreateMonitor(payload) ==
    /\ calc.kind = "api" /\ calc.ops < ApiOps
    /\ calc.monitor = None
    /\ calc' = IF MonitorCreate(payload) = None
               THEN [calc EXCEPT !.status = 422, !.ops = @ + 1]
               ELSE [calc EXCEPT !.monitor = MonitorCreate(payload),
                                 !.status = 201, !.ops = @ + 1]
    /\ UNCHANGED store

\* PUT /monitors/{id}: 404 without the row; a commit that fails leaves the
\* row as it was
UpdateMonitor(payload) ==
    /\ calc.kind = "api" /\ calc.ops < ApiOps
    /\ calc' = IF calc.monitor = None
               THEN [calc EXCEPT !.status = 404, !.ops = @ + 1]
               ELSE IF NotNullViolation(SetAttrs(calc.monitor[1], payload))
               THEN [calc EXCEPT !.status = 500, !.ops = @ + 1]
               ELSE [calc EXCEPT !.monitor = Some(SetAttrs(calc.monitor[1], payload)),
                                 !.status = 200, !.ops = @ + 1]
    /\ UNCHANGED store

ApiNext ==
    \/ \E payload \in Payloads : CreateMonitor(payload)
    \/ \E payload \in Payloads : UpdateMonitor(payload)

ApiSpec == ApiInit /\ [][ApiNext]_vars

\* ------------------------------------------- more due monitors than LIMIT
\* LimitMonitors enabled monitors created one clock unit after the other, the
\* last three in the same unit; the schedulers start when some or all of
\* them are due
LimitInit ==
    /\ now \in 1..LimitMonitors
    /\ monitors = [m \in 1..LimitMonitors |->
                     NewMonitor(DefaultInterval, TRUE, Min(m, LimitMonitors - 2))]
    /\ Idle
    /\ users = << >>
    /\ settings = DefaultSettings
    /\ budget = [claims |-> LimitMonitors, edits |-> 0, time |-> LimitMonitors]

\* the scheduler loops alone, each iteration that follows within the claim
\* lease of the first: claim_due_monitors and apply_async
LimitNext ==
    \/ \E s \in SchedulerIds : SelectForUpdate(s)
    \/ \E s \in SchedulerIds : CommitClaim(s, TRUE)

LimitSpec == LimitInit /\ [][LimitNext]_vars

\* every scheduler loop keeps running: it polls again after its sleep, and
\* commits the claim and sends the tasks of the transaction it opened
LimitLiveSpec ==
    /\ LimitSpec
    /\ \A s \in SchedulerIds :
          /\ WF_vars(SelectForUpdate(s))
          /\ WF_vars(CommitClaim(s, TRUE))

\* ------------------------------------------------------------------ claims
NoDuplicates(q) == \A i, j \in 1..Len(q) : i # j => q[i] # q[j]

Due(m, t) ==
    /\ monitors[m].enabled
    /\ monitors[m].next_run_at # NULL
    /\ monitors[m].next_run_at <= t

TasksOf(m) == {t \in tasks : t.monitor_id = m}

\* the number of down rows at the end of a monitor's check log (since its last up row)
RECURSIVE DownsSinceLastUp(_)
DownsSinceLastUp(log) ==
    IF log = << >> \/ log[Len(log)].outcome = "up" THEN 0
    ELSE 1 + DownsSinceLastUp(SubSeq(log, 1, Len(log) - 1))

\* C1: the rows held by the open claim transactions of two schedulers are
\* disjoint (claim_due_monitors runs that overlap return disjoint results), no
\* id appears twice in one claim result, and over an unchanged due set no
\* monitor is claimed twice in one cycle: two claims of a monitor between
\* which no check result was committed for it never have the same claim time.
C1_ClaimedAtMostOnce ==
    /\ \A s1, s2 \in SchedulerIds : s1 # s2 => LockedBy(s1) \cap LockedBy(s2) = {}
    /\ \A s \in SchedulerIds : NoDuplicates(sched[s].claimed_ids)
    /\ \A m \in MonitorIds : \A c, d \in 1..Len(claims[m]) :
          (c < d /\ claims[m][c].nchecks = claims[m][d].nchecks)
              => claims[m][c].at # claims[m][d].at

\* C1 witness: a scheduler holds claimed rows in its open transaction after a
\* SELECT has skipped a due row because another transaction had it locked.
C1_Witness ==
    /\ "locked" \in passed_over
    /\ \E s \in SchedulerIds : sched[s].pc = "txn"
    /\ \E m \in MonitorIds : claims[m] # << >>

\* C2 (as stated): at most one check of a monitor is in flight at any time.
C2_OneCheckInFlight ==
    \A m \in MonitorIds : Cardinality(TasksOf(m)) <= 1

\* C3: every row a scheduler selects, locks and claims is enabled; a disabled
\* monitor is never selected or claimed, whatever its next_run_at, so no check
\* is dispatched for a claim of a disabled monitor.
C3_DisabledNeverClaimed ==
    /\ \A s \in SchedulerIds : \A m \in LockedBy(s) : monitors[m].enabled
    /\ \A m \in MonitorIds : \A c \in 1..Len(claims[m]) : claims[m][c].enabled

\* C3 witness: a SELECT has left out a disabled monitor whose next_run_at had
\* come, and a disabled monitor has a next_run_at in the past that a persist
\* wrote after the monitor was disabled.
C3_Witness ==
    /\ "disabled" \in passed_over
    /\ \E m \in MonitorIds :
          /\ ~monitors[m].enabled
          /\ monitors[m].next_run_at <= now
          /\ monitor_checks[m] # << >>
          /\ ~monitor_checks[m][Len(monitor_checks[m])].enabled
          /\ monitor_checks[m][Len(monitor_checks[m])].next_run_at = monitors[m].next_run_at

\* C4: every claim at time t is of a monitor that is due at t (enabled and
\* next_run_at <= t), and two successive claims of a monitor are at least
\* claim_ttl apart unless a persist committed between them wrote a
\* next_run_at earlier than the first claim's lease.
C4_ClaimedOnlyWhenDue ==
    \A m \in MonitorIds : \A c \in 1..Len(claims[m]) :
        /\ claims[m][c].enabled
        /\ claims[m][c].before <= claims[m][c].at
        /\ (c > 1 /\ claims[m][c].at < claims[m][c - 1].at + scheduler_claim_seconds)
              => \E k \in (claims[m][c - 1].nchecks + 1)..claims[m][c].nchecks :
                    monitor_checks[m][k].next_run_at
                        < claims[m][c - 1].at + scheduler_claim_seconds

\* C4 witness: a monitor has been claimed again once its lease had run out.
C4_Witness ==
    \E m \in MonitorIds :
        /\ Len(claims[m]) >= 2
        /\ claims[m][2].at >= claims[m][1].at + scheduler_claim_seconds

\* C5: every claim at time t strictly increases the monitor's next_run_at, to
\* a value >= t + scheduler_claim_seconds.
C5_ClaimAdvancesNextRun ==
    \A m \in MonitorIds : \A c \in 1..Len(claims[m]) :
        /\ claims[m][c].after > claims[m][c].before
        /\ claims[m][c].after >= claims[m][c].at + scheduler_claim_seconds

\* C5 witness: a claim made some time after the monitor came due has moved
\* next_run_at, and the row still holds the claim's value.
C5_Witness ==
    \E m \in MonitorIds :
        /\ claims[m] # << >>
        /\ claims[m][Len(claims[m])].before < claims[m][Len(claims[m])].at
        /\ monitors[m].next_run_at = claims[m][Len(claims[m])].after

\* the last clock value the model reaches
LastTick == Sec(TickSeconds) * (budget.time \div Sec(TickSeconds))

\* claim c is the latest claim of monitor m and its check is gone without a
\* result: not dispatched, or the worker died or the probe was cancelled
Lost(m, c) ==
    /\ Len(claims[m]) = c
    /\ \A t \in TasksOf(m) : t.claim # c
    /\ \A k \in 1..Len(monitor_checks[m]) : monitor_checks[m][k].claim # c

\* the model's bounds end the behaviour before the lease of claim c is
\* over, or leave no room for one more claim
OutOfBounds(m, c) ==
    \/ claims[m][c].at + scheduler_claim_seconds > LastTick
    \/ NumClaims + Cardinality(Locked) + Cardinality(DueUnlocked(now)) > budget.claims

\* C6: lease recovery.  While no result has been committed for a monitor
\* since its latest claim, the monitor is not due before claim time +
\* claim_ttl and, if enabled, is due from then on; and a claim whose check is
\* lost without a result leads to a new claim of the monitor by a running
\* scheduler (which hands it to dispatch), unless the monitor is disabled or
\* another check of the monitor commits a result in the meantime.
C6_LeaseRecovery ==
    /\ [](\A m \in MonitorIds :
            (claims[m] # << >>
               /\ Len(monitor_checks[m]) = claims[m][Len(claims[m])].nchecks)
            => LET lease == claims[m][Len(claims[m])].at + scheduler_claim_seconds
               IN  /\ now < lease => ~Due(m, now)
                   /\ (now >= lease /\ monitors[m].enabled) => Due(m, now))
    /\ \A m \in 1..NumMonitors : \A c \in 1..MaxClaims :
          (Lost(m, c) /\ monitors[m].enabled)
             ~> \/ Len(claims[m]) > c
                \/ ~monitors[m].enabled
                \/ /\ Len(claims[m]) = c
                   /\ \/ Len(monitor_checks[m]) > claims[m][c].nchecks
                      \/ OutOfBounds(m, c)

\* C6 witness: a claim was lost without a result (the scheduler died before
\* dispatch, or the worker died), the lease ran out and the monitor was
\* claimed and dispatched again.
C6_Witness ==
    \E m \in MonitorIds :
        /\ Len(claims[m]) = 2
        /\ monitor_checks[m] = << >>
        /\ \A t \in TasksOf(m) : t.claim = 2
        /\ claims[m][2].at >= claims[m][1].at + scheduler_claim_seconds
        /\ claims[m][2].dispatched

\* C7 (as stated): every committed up check leaves the committed monitor row
\* with consecutive_failures = 0 and last_outcome = up.
C7_UpResetsFailures ==
    \A m \in MonitorIds : \A k \in 1..Len(monitor_checks[m]) :
        monitor_checks[m][k].outcome = "up"
            => /\ monitor_checks[m][k].consecutive_failures = 0
               /\ monitor_checks[m][k].last_outcome = "up"

\* C8 (as stated): the committed consecutive_failures equals the number of
\* down rows recorded since the monitor's last up row.
C8_FailuresCountDownRows ==
    \A m \in MonitorIds :
        monitors[m].consecutive_failures = DownsSinceLastUp(monitor_checks[m])

\* C9 (as stated): next_run_at never regresses: the value a persist writes is
\* >= the value written by the claim that dispatched the check, and every
\* claim and every persist leaves next_run_at >= its value before the step.
C9_NextRunNeverRegresses ==
    \A m \in MonitorIds :
        /\ \A c \in 1..Len(claims[m]) : claims[m][c].after >= claims[m][c].before
        /\ \A k \in 1..Len(monitor_checks[m]) :
              /\ monitor_checks[m][k].claim # 0 =>
                    monitor_checks[m][k].next_run_at
                       >= claims[m][monitor_checks[m][k].claim].after
              /\ monitor_checks[m][k].next_run_at >= monitor_checks[m][k].before

\* C10 (as stated): no MonitorCheck row is inserted by the scheduler path for
\* a monitor that is disabled at the time of the insert.
C10_NoCheckWhileDisabled ==
    \A m \in MonitorIds : \A k \in 1..Len(monitor_checks[m]) :
        monitor_checks[m][k].enabled

\* the number of times monitor m has been dispatched (apply_async calls)
Dispatches(m) ==
    Cardinality({c \in 1..Len(claims[m]) : claims[m][c].dispatched})

\* C11 (S5): with S5Monitors monitors due, fetch_limit = 20 and the
\* schedulers polling at the same time, no monitor is ever dispatched twice
\* and eventually every due monitor has been dispatched exactly once.
C11_S5EachDispatchedOnce ==
    /\ [](\A m \in MonitorIds : Dispatches(m) <= 1 /\ Len(claims[m]) <= 1)
    /\ <>[](\A m \in MonitorIds : Dispatches(m) = 1)

\* C11 witness: all the monitors have been dispatched once, and a scheduler's
\* SELECT has skipped due rows that the other's open transaction had locked.
C11_Witness ==
    /\ Cardinality(MonitorIds) = S5Monitors
    /\ \A m \in MonitorIds : Dispatches(m) = 1
    /\ "locked" \in passed_over
    /\ fetch_limit = 20

\* the rows k of monitor m's check log from row i to row j
Between(i, j) == {k \in Min(i, j)..Max(i, j) : TRUE}

\* two alert emails of one monitor belong to the same outage: no up check
\* was recorded from the check of the one to the check of the other
SameOutage(e, f) ==
    /\ e.monitor_id = f.monitor_id
    /\ \A k \in Between(e.check, f.check) :
          monitor_checks[e.monitor_id][k].outcome = "down"

\* the alert engine counted the window for email e before any later check of
\* the monitor was committed
CountedAtOnce(e) == e.rows = e.check

\* the checks of monitor m have run one after the other: the check of every
\* claim was committed before the next claim of the monitor
OneAtATime(m) ==
    /\ \A c \in 1..Len(claims[m]) : claims[m][c].nchecks = c - 1
    /\ \A k \in 1..Len(monitor_checks[m]) : monitor_checks[m][k].claim = k

\* C12 (as stated): at most one alert email is emitted during one outage (an
\* unbroken run of down checks), however the checks are spaced: when the
\* checks of a monitor run one after the other and each counts the window
\* before any later check is committed, two alert emails always have an up
\* check between the checks that emitted them.
C12_OneAlertPerOutage ==
    \A i, j \in 1..Len(emails) :
        (/\ i # j
         /\ OneAtATime(emails[i].monitor_id)
         /\ CountedAtOnce(emails[i]) /\ CountedAtOnce(emails[j]))
            => ~SameOutage(emails[i], emails[j])

\* the alert engine of the check in task t has returned in this step
AlertReturns(t) == t \in tasks /\ t.pc = "alerting" /\ t \notin tasks'

\* C13 (S4): every alert email was emitted by a down check whose count of
\* in-window down rows, taken after its own row was inserted, was exactly
\* the threshold; and a down check whose alert engine returns emits an email
\* if and only if that count equals the threshold (mailer configured, owner
\* with an email).
C13_EmailIffCountIsThreshold ==
    /\ [](\A i \in 1..Len(emails) :
            /\ emails[i].down_checks = settings.sustained_down_threshold
            /\ emails[i].check <= emails[i].rows
            /\ monitor_checks[emails[i].monitor_id][emails[i].check].outcome = "down")
    /\ [][\A t \in tasks : AlertReturns(t) =>
            /\ t.check <= Len(monitor_checks[t.monitor_id])
            /\ (Len(emails') = Len(emails) + 1
                   <=> DownChecksInWindow(t.monitor_id, now)
                          = settings.sustained_down_threshold)]_vars

\* C13 witness: three down checks have run one after the other inside one
\* window; the second (count = threshold) emitted the one email, the third
\* (count above the threshold) none.
C13_Witness ==
    /\ tasks = {}
    /\ Len(monitor_checks[1]) = AlertThreshold + 1
    /\ OneAtATime(1)
    /\ DownChecksInWindow(1, now) = AlertThreshold + 1
    /\ Len(emails) = 1
    /\ emails[1].check = AlertThreshold
    /\ CountedAtOnce(emails[1])

\* no check of monitor m is in flight and no alert engine is still to return
Quiescent(m) == \A t \in tasks : t.monitor_id # m

\* C14: at-least-once alerting. The window count of an owned monitor starts
\* below the threshold; once every check of the monitor has returned and the
\* count of in-window down rows stands at the threshold or above, the count
\* has crossed the threshold and at least one alert send was attempted for
\* the monitor, also when two down results were committed before either
\* counted the window.
C14_CrossingAlerted ==
    \A m \in MonitorIds :
        (/\ Quiescent(m)
         /\ AlertConfigured(monitors[m])
         /\ lookup_owner_email(monitors[m].owner_id) # ""
         /\ DownChecksInWindow(m, now) >= settings.sustained_down_threshold)
            => \E i \in 1..Len(emails) : emails[i].monitor_id = m

\* the conditions the specification lists for an alert send of monitor m
AlertPreconditions(m) ==
    /\ settings.sustained_down_threshold > 0
    /\ settings.sustained_down_window_minutes > 0
    /\ monitors[m].owner_id # NULL
    /\ settings.smtp_host
    /\ settings.alert_email_from
    /\ monitors[m].owner_id \in DOMAIN users
    /\ users[monitors[m].owner_id] # ""

\* persist_check_result of task t commits in this step
Persists(t) == t \in tasks /\ t.pc = "persisting" /\ t \notin tasks'

\* C15: an alert send is attempted only for a persisted down check of a
\* monitor with threshold > 0, window > 0, an owner_id, mailer host and
\* sender configured and an owner row with an email; whatever the alert
\* settings are, every check that persists records its MonitorCheck row.
C15_SendOnlyIfPreconditions ==
    /\ [](\A i \in 1..Len(emails) :
            /\ AlertPreconditions(emails[i].monitor_id)
            /\ emails[i].check <= Len(monitor_checks[emails[i].monitor_id])
            /\ monitor_checks[emails[i].monitor_id][emails[i].check].outcome = "down")
    /\ [][\A t \in tasks : Persists(t) =>
            /\ Len(monitor_checks'[t.monitor_id]) = Len(monitor_checks[t.monitor_id]) + 1
            /\ monitor_checks'[t.monitor_id][Len(monitor_checks'[t.monitor_id])].outcome
                  = t.outcome]_vars

\* C15 witness: one precondition fails, two down checks (the threshold) are
\* recorded within the window, every check has returned and no email was sent.
C15_Witness ==
    /\ ~AlertPreconditions(1)
    /\ tasks = {}
    /\ DownChecksInWindow(1, now) = AlertThreshold
    /\ emails = << >>

\* the mailer fields of Settings that can be absent (default None);
\* smtp_port, smtp_use_tls, smtp_use_ssl and smtp_timeout always have a value
MailerFieldAbsent ==
    \/ ~settings.smtp_host
    \/ ~settings.alert_email_from
    \/ ~settings.smtp_username
    \/ ~settings.smtp_password

\* C16: when any single mailer configuration field is absent, alerting is
\* disabled: no email send is attempted for any check.
C16_AbsentMailerFieldDisables == MailerFieldAbsent => emails = << >>

\* C17: a failing send never affects the probe result: the check of every
\* send, successful or failed, has its MonitorCheck row and monitor update
\* committed, and send_sustained_downtime_email raised no error into the
\* executor.
C17_SendFailureContained ==
    \A i \in 1..Len(emails) :
        /\ emails[i].check <= Len(monitor_checks[emails[i].monitor_id])
        /\ monitors[emails[i].monitor_id].last_checked_at # NULL
        /\ ~emails[i].raised

\* the columns of a monitor row that only persist_check_result writes
CheckColumns(row) ==
    << row.last_checked_at, row.last_outcome, row.consecutive_failures >>

\* a check row of monitor m is inserted in this step
RowInserted(m) == Len(monitor_checks'[m]) = Len(monitor_checks[m]) + 1

\* the check of task t ends in this step before its commit
Dropped(t) ==
    /\ t \in tasks /\ t.pc \in {"queued", "probing", "persisting"}
    /\ \A u \in tasks' : u.claim # t.claim \/ u.monitor_id # t.monitor_id
    /\ ~RowInserted(t.monitor_id)

\* the executor's check of task t commits row and update in this step
ExecutorCommits(t) ==
    LET m == t.monitor_id
    IN  /\ t \in tasks \ tasks' /\ t.pc = "persisting"
        /\ monitors'[m] = Flush(monitors[m], t.loaded, t.dirty)
        /\ monitor_checks'[m][Len(monitor_checks'[m])].claim = t.claim
        /\ monitor_checks'[m][Len(monitor_checks'[m])].occurred_at = t.completed_at

\* the API's requested check of monitor m commits row and update in this step
ApiCommits(m) ==
    /\ edits' = edits + 1
    /\ monitor_checks'[m][Len(monitor_checks'[m])].claim = 0
    /\ monitors'[m].last_checked_at = now
    /\ monitors'[m].last_outcome = monitor_checks'[m][Len(monitor_checks'[m])].outcome

\* C18: the monitor-row update and the MonitorCheck insert of one check are
\* committed together or not at all. A monitor has a recorded check exactly
\* when it has check rows; every step that inserts a check row writes, in the
\* same step, the monitor update of the check that commits (the executor's
\* task or the API's requested check), and no other step touches the
\* check-written columns or the rows; a check that is dropped before its
\* commit (worker death, cancellation, disabled monitor) changes neither the
\* monitor nor its rows, and a check in flight writes nothing before its
\* commit.
C18_CommitAllOrNothing ==
    /\ [](\A m \in MonitorIds :
            monitor_checks[m] = << >> <=> monitors[m].last_checked_at = NULL)
    /\ [][\A m \in MonitorIds :
            /\ monitor_checks'[m] # monitor_checks[m] =>
                  /\ RowInserted(m)
                  /\ SubSeq(monitor_checks'[m], 1, Len(monitor_checks[m]))
                        = monitor_checks[m]
                  /\ \/ \E t \in TasksOf(m) : ExecutorCommits(t)
                     \/ ApiCommits(m)
            /\ CheckColumns(monitors'[m]) # CheckColumns(monitors[m]) => RowInserted(m)
            /\ (monitors'[m] # monitors[m] /\ ~RowInserted(m)) =>
                  (sched' # sched \/ edits' # edits)]_vars
    /\ [][\A t \in tasks : Dropped(t) =>
            /\ monitors' = monitors
            /\ monitor_checks' = monitor_checks]_vars

\* C18 witness: a claimed check was dropped before its commit (the claim has
\* no task and no row) and the monitor stands as the claim left it, while a
\* check of the other monitor has committed its row and its update.
C18_Witness ==
    \E m, n \in MonitorIds :
        /\ Len(claims[m]) = 1 /\ claims[m][1].dispatched
        /\ TasksOf(m) = {} /\ monitor_checks[m] = << >>
        /\ monitors[m].next_run_at = claims[m][1].after
        /\ monitors[m].last_checked_at = NULL
        /\ monitor_checks[n] # << >>
        /\ monitors[n].last_checked_at = monitor_checks[n][Len(monitor_checks[n])].occurred_at

\* the check rows that the deliveries of claim c of monitor m have persisted
RowsOfClaim(m, c) ==
    {k \in 1..Len(monitor_checks[m]) : monitor_checks[m][k].claim = c}

\* the lease that claim c of monitor m wrote has not run out
WithinLease(m, c) == now < claims[m][c].at + scheduler_claim_seconds

\* C19: delivering the same claimed monitor id twice within one lease is a
\* no-op or idempotent for persistence: while the lease of a claim runs, the
\* claim has at most the one MonitorCheck row of a single delivery.
C19_RedeliveryIdempotent ==
    \A m \in MonitorIds : \A c \in 1..Len(claims[m]) :
        WithinLease(m, c) => Cardinality(RowsOfClaim(m, c)) <= 1

\* C20: when every dispatched check ends within claim_ttl of its claim and
\* no task is delivered twice, no two checks of one monitor are in flight at
\* once, every check in flight belongs to the monitor's latest claim, and
\* every claim has at most one MonitorCheck row.
C20_TimelyChecksNeverOverlap ==
    \A m \in MonitorIds :
        /\ Cardinality(TasksOf(m)) <= 1
        /\ \A t \in TasksOf(m) : t.claim = Len(claims[m]) /\ InLease(t, now)
        /\ \A c \in 1..Len(claims[m]) : Cardinality(RowsOfClaim(m, c)) <= 1

\* C20 witness: a monitor was claimed a second time after the check of its
\* first claim had committed; the second check is in flight and the first
\* claim has its one row.
C20_Witness ==
    \E m \in MonitorIds :
        /\ Len(claims[m]) = 2
        /\ Cardinality(RowsOfClaim(m, 1)) = 1
        /\ \E t \in TasksOf(m) : t.claim = 2 /\ t.pc = "persisting"

\* the CheckResult or MonitorCheck records that calc holds
Recorded ==
    (IF calc.kind = "probe" /\ calc.pc \in {"result", "recorded"}
     THEN {calc.result} ELSE {})
    \cup (IF calc.kind = "probe" /\ calc.pc = "recorded" THEN {calc.row} ELSE {})

\* C21: for every HTTP response the recorded outcome is up iff
\* 200 <= status_code < 400 and down otherwise (199 down, 200 up, 399 up,
\* 400 down, 500 down); every transport or timeout error is recorded as down.
C21_OutcomeFromStatus ==
    calc.kind = "probe" =>
        /\ calc.pc = "raised" => calc.response.kind = "error"
        /\ \A r \in Recorded :
              /\ calc.response.kind = "response" =>
                    /\ r.status_code = calc.response.status_code
                    /\ r.outcome = "up" <=> r.status_code \in 200..399
                    /\ r.outcome = "down" <=> r.status_code \notin 200..399
                    /\ r.status_code \in {199, 400, 500} => r.outcome = "down"
                    /\ r.status_code \in {200, 399} => r.outcome = "up"
              /\ calc.response.kind = "request_error" => r.outcome = "down"

\* C21 witness: a response with status 399 has been recorded as up.
C21_Witness ==
    /\ calc.kind = "probe" /\ calc.pc = "recorded"
    /\ calc.response.kind = "response" /\ calc.response.status_code = 399
    /\ calc.row.outcome = "up"

\* C22: every CheckResult and every MonitorCheck row satisfies latency_ms is
\* null iff status_code is null iff error_message is not null.
C22_NullnessOfResultFields ==
    \A r \in Recorded :
        /\ r.latency_ms = NULL <=> r.status_code = NULL
        /\ r.status_code = NULL <=> r.error_message # None

\* C22 witness: a timeout whose str(exc) is empty has been recorded: no status,
\* no latency, an error message that is the empty string.
C22_Witness ==
    /\ calc.kind = "probe" /\ calc.pc = "recorded"
    /\ calc.response.kind = "request_error"
    /\ calc.row.error_message = Some("")
    /\ calc.row.status_code = NULL /\ calc.row.latency_ms = NULL

\* the attempts of the stages before stage k of a list
RECURSIVE AttemptsBefore(_, _)
AttemptsBefore(stages, k) ==
    IF k = 1 THEN 0
    ELSE AttemptsBefore(stages, k - 1) + stages[k - 1].attempts[1]

\* the stages of a list that a count n selects: every earlier stage is
\* bounded, and the stage is unbounded or has room for what remains of n
Selecting(stages, n) ==
    {k \in 1..Len(stages) :
        /\ \A j \in 1..(k - 1) : stages[j].attempts # None
        /\ \/ stages[k].attempts = None
           \/ n - AttemptsBefore(stages, k) <= stages[k].attempts[1]}

Returned == calc.kind = "retry" /\ calc.pc = "returned"

\* C23: determine_failure_retry_interval(n, default) is the staged walk for
\* every n and every stage list: default if n <= 0, otherwise the interval of
\* the first stage that is unbounded or has remaining <= attempts after the
\* attempts of the earlier stages are subtracted, floored at 1 second; with the
\* default stages 30 for n in 1..2, 60 for 3..7, 120 for 8..19, 300 from 20 on.
C23_RetryIntervalIsStagedWalk ==
    Returned =>
        LET n == calc.consecutive_failures
            sel == Selecting(calc.stages, n)
            first == CHOOSE k \in sel : \A j \in sel : k <= j
        IN  /\ n <= 0 => calc.interval = calc.default_interval
            /\ n > 0 /\ sel # {} =>
                  calc.interval = Max(calc.stages[first].interval_seconds, 1)
            /\ n > 0 /\ sel = {} => calc.interval = calc.default_interval
            /\ calc.stages = failure_retry_stages =>
                  /\ n \in 1..2 => calc.interval = 30
                  /\ n \in 3..7 => calc.interval = 60
                  /\ n \in 8..19 => calc.interval = 120
                  /\ n >= 20 => calc.interval = 300

\* C23 witness: a walk has passed a bounded stage and returned a later
\* stage's interval raised to the floor of 1 second.
C23_Witness ==
    /\ Returned
    /\ calc.consecutive_failures = 3
    /\ Len(calc.stages) = 2
    /\ calc.stages[1].attempts = Some(2)
    /\ calc.stages[2] = [attempts |-> Some(1), interval_seconds |-> 0]
    /\ calc.interval = 1

\* a call under the default stages has returned
ReturnedDefault == Returned /\ calc.stages = failure_retry_stages

\* the interval for one failure more than the call was made with
IntervalAfter ==
    RetryInterval(calc.stages, calc.consecutive_failures + 1, calc.default_interval)

\* C24 as stated: with the default stages failure_retry_interval(n + 1, default)
\* >= failure_retry_interval(n, default) for every n and every default interval
\* in 30..86400, the step from n = 0 to n = 1 included.
C24_MonotoneFromZero ==
    ReturnedDefault => IntervalAfter >= calc.interval

\* C24: with the default stages failure_retry_interval(n + 1, default) >=
\* failure_retry_interval(n, default) for every n other than 0 and every default
\* interval in 30..86400; the step from n = 0 to n = 1 goes from default to 30
\* and is non-decreasing exactly when default is 30.
C24_MonotoneFromOne ==
    ReturnedDefault =>
        /\ calc.consecutive_failures # 0 => IntervalAfter >= calc.interval
        /\ calc.consecutive_failures = 0 =>
              /\ calc.interval = calc.default_interval
              /\ IntervalAfter = 30
              /\ IntervalAfter >= calc.interval <=> calc.default_interval = 30

\* C24 witness: the call for n = 7 has returned 60 and n = 8 gives 120.
C24_Witness ==
    /\ ReturnedDefault
    /\ calc.consecutive_failures = 7
    /\ calc.interval = 60
    /\ IntervalAfter = 120

\* the bounded stages of the default list: stage k ends at the count
\* AttemptsBefore(failure_retry_stages, k + 1), which is 2, 7, 19
BoundedStages == {k \in 1..Len(failure_retry_stages) :
                     failure_retry_stages[k].attempts # None}

\* C25 as stated: at a stage boundary (consecutive_failures equal to the
\* attempts of stages 1..k together: 2, 7, 19 with the default stages) the
\* retry interval is the interval of the next stage k + 1.
C25_BoundaryUsesNextStage ==
    ReturnedDefault =>
        \A k \in BoundedStages :
            calc.consecutive_failures = AttemptsBefore(failure_retry_stages, k + 1)
                => calc.interval = failure_retry_stages[k + 1].interval_seconds

\* C25: at consecutive_failures equal to the attempts of stages 1..k together
\* (2, 7, 19 with the default stages) the retry interval is still the interval
\* of stage k (30, 60, 120); the interval of stage k + 1 (60, 120, 300) is used
\* from the next count on (3, 8, 20).
C25_BoundaryUsesOwnStage ==
    ReturnedDefault =>
        /\ \A k \in BoundedStages :
              LET last == AttemptsBefore(failure_retry_stages, k + 1)
              IN  /\ calc.consecutive_failures = last
                        => calc.interval = failure_retry_stages[k].interval_seconds
                  /\ calc.consecutive_failures = last + 1
                        => calc.interval = failure_retry_stages[k + 1].interval_seconds
        /\ calc.consecutive_failures = 2 => calc.interval = 30
        /\ calc.consecutive_failures = 3 => calc.interval = 60
        /\ calc.consecutive_failures = 7 => calc.interval = 60
        /\ calc.consecutive_failures = 8 => calc.interval = 120
        /\ calc.consecutive_failures = 19 => calc.interval = 120
        /\ calc.consecutive_failures = 20 => calc.interval = 300

\* C25 witness: the call for the last count of the third stage, 19, has
\* returned that stage's 120.
C25_Witness ==
    /\ ReturnedDefault
    /\ calc.consecutive_failures = AttemptsBefore(failure_retry_stages, 4)
    /\ calc.consecutive_failures = 19
    /\ calc.interval = 120

\* the number of down rows that end at row k of a check log
DownRun(log, k) == DownsSinceLastUp(SubSeq(log, 1, k))

\* C26: for a healthy monitor with the default stages that then fails
\* repeatedly, the k-th consecutive down check commits consecutive_failures = k
\* and next_run_at = now + the stage interval for k: + 30 after checks 1 and 2,
\* + 60 after checks 3, 4 and 5, with jitter 0.
C26_StagedBackoff ==
    \A m \in MonitorIds : \A k \in 1..Len(monitor_checks[m]) :
        LET row == monitor_checks[m][k]
            n == DownRun(monitor_checks[m], k)
        IN  row.outcome = "down" =>
                /\ row.consecutive_failures = n
                /\ n \in 1..2 => row.next_run_at = row.occurred_at + Sec(30)
                /\ n \in 3..5 => row.next_run_at = row.occurred_at + Sec(60)
                /\ row.next_run_at =
                      row.occurred_at
                         + Sec(determine_failure_retry_interval(n, monitors[m].interval_seconds))
                /\ k = Len(monitor_checks[m]) /\ TasksOf(m) = {} /\ m \notin Locked
                       /\ Len(claims[m]) = k =>
                      /\ monitors[m].consecutive_failures = n
                      /\ monitors[m].next_run_at = row.next_run_at

\* C26 witness: the scenario itself: five down checks at 0, 30, 60, 120 and
\* 180 s have left consecutive_failures = 5 and the next run at 240 s.
C26_Witness ==
    /\ 1 \in MonitorIds
    /\ monitors[1].interval_seconds = 60
    /\ Len(monitor_checks[1]) = 5
    /\ \A k \in 1..5 : monitor_checks[1][k].outcome = "down"
    /\ << monitor_checks[1][1].occurred_at, monitor_checks[1][2].occurred_at,
          monitor_checks[1][3].occurred_at, monitor_checks[1][4].occurred_at,
          monitor_checks[1][5].occurred_at >>
          = << 0, Sec(30), Sec(60), Sec(120), Sec(180) >>
    /\ monitors[1].consecutive_failures = 5
    /\ monitors[1].next_run_at = Sec(240)

\* C27: with jitter_seconds = 0, persisting an up check at time t sets
\* next_run_at to exactly t + interval_seconds, however many failures preceded
\* it, and resets consecutive_failures to 0.
C27_RecoveryRestoresBaseInterval ==
    \A m \in MonitorIds : \A k \in 1..Len(monitor_checks[m]) :
        LET row == monitor_checks[m][k]
        IN  row.outcome = "up" =>
                /\ row.next_run_at = row.occurred_at + Sec(monitors[m].interval_seconds)
                /\ row.consecutive_failures = 0
                /\ row.last_outcome = "up"
                /\ k = Len(monitor_checks[m]) /\ TasksOf(m) = {} /\ m \notin Locked
                       /\ Len(claims[m]) = k =>
                      /\ monitors[m].next_run_at = row.next_run_at
                      /\ monitors[m].consecutive_failures = 0

\* C28: the two dispatch implementations commit the same: from the same
\* monitor state and the same probe result the in-process worker loop
\* (update_monitor_state) and the executor (persist_check_result) commit the
\* same monitor fields (consecutive_failures, last_*, next_run_at with jitter
\* 0) and the same MonitorCheck row.
C28_DispatchersCommitTheSame ==
    (calc.kind = "dispatch" /\ calc.executor # None /\ calc.worker # None)
        => calc.executor = calc.worker

\* C29: in commit order the occurred_at values of the MonitorCheck rows of one
\* monitor are non-decreasing: each newly committed check has occurred_at >=
\* that of the check of the same monitor committed before it.
C29_OccurredAtInCommitOrder ==
    \A m \in MonitorIds : \A k \in 2..Len(monitor_checks[m]) :
        monitor_checks[m][k].occurred_at >= monitor_checks[m][k - 1].occurred_at

\* C30: next_run_at of every monitor is set (never null) in every reachable
\* state, after any sequence of claims, persists by either worker
\* implementation, and enable/disable edits.
C30_NextRunAlwaysSet ==
    \A m \in MonitorIds : monitors[m].next_run_at # NULL

\* C30 witness: the in-process worker has met a monitor disabled since its
\* selection, its commit of next_run_at = None was rejected, and an executor
\* persist and an edit lie behind.
C30_Witness ==
    /\ loop.pc = "dead"
    /\ edits > 0
    /\ \E m \in MonitorIds : ~monitors[m].enabled
    /\ \E m \in MonitorIds : \E k \in 1..Len(monitor_checks[m]) :
          monitor_checks[m][k].claim # 0

\* the task of tasks' that continues task t
Continues(u, t) ==
    /\ u.monitor_id = t.monitor_id
    /\ u.claim = t.claim
    /\ u.delivery = t.delivery

\* C31: if the monitor is missing or disabled when the executor loads its
\* snapshot the executor aborts: no probe is issued, no MonitorCheck row is
\* inserted and no monitor field is changed; and if the monitor row no longer
\* exists at the persist step, nothing is written.
C31_AbortWithoutWrite ==
    [][/\ \A t \in tasks :
            (t.pc = "queued" /\ (Missing(t.monitor_id) \/ ~monitors[t.monitor_id].enabled))
                => /\ \A u \in tasks' : Continues(u, t) => u = t
                   /\ t \notin tasks' => /\ monitors' = monitors
                                         /\ monitor_checks' = monitor_checks
       /\ \A t \in tasks :
            (t.pc = "persisting" /\ Missing(t.monitor_id) /\ t \notin tasks')
                => /\ monitors' = monitors
                   /\ monitor_checks' = monitor_checks
       /\ \A m \in MonitorIds :
            Missing(m) => /\ monitors'[m] = monitors[m]
                          /\ monitor_checks'[m] = monitor_checks[m]
      ]_vars

\* C31 witness: a check found its monitor gone at the persist step and
\* returned, and the monitor has no MonitorCheck row.
C31_Witness ==
    \E t \in tasks :
        /\ t.pc = "vanished"
        /\ Missing(t.monitor_id)
        /\ monitor_checks[t.monitor_id] = << >>

\* C32: within one worker process the number of probes in flight at any
\* moment never exceeds max_concurrency, for any number of due monitors.
C32_BoundedProbes ==
    /\ loop.in_flight \subseteq loop.due
    /\ Cardinality(loop.in_flight) <= max_concurrency

\* C32 witness: max_concurrency probes are in flight and a due monitor waits
\* for the semaphore.
C32_Witness ==
    /\ Cardinality(loop.in_flight) = max_concurrency
    /\ loop.due \ loop.in_flight # {}

\* C33: after any sequence of API create and update operations every stored
\* monitor has interval_seconds in 30..86400 and timeout_seconds in 1..60
\* (30 and 86400 are accepted; a value outside the range is rejected and the
\* stored monitor is unchanged).
C33_StoredInRange ==
    (calc.kind = "api" /\ calc.monitor # None)
        => /\ validate_interval(calc.monitor[1].interval_seconds)
           /\ validate_timeout(calc.monitor[1].timeout_seconds)

\* what POST /monitors alone keeps: a created monitor that no update has
\* touched is in range
CreatedInRange ==
    (calc.kind = "api" /\ calc.monitor # None /\ calc.status = 201)
        => /\ validate_interval(calc.monitor[1].interval_seconds)
           /\ validate_timeout(calc.monitor[1].timeout_seconds)

\* the ids of a list of claimed rows
Ids(q) == {q[k] : k \in 1..Len(q)}

\* C34: one claim iteration claims at most L = max_concurrency * 4 monitors,
\* and the claimed ones are those with the smallest next_run_at among the
\* due, unlocked rows: no due unlocked monitor with an earlier next_run_at is
\* passed over for a later one.
C34_OldestFirstUpToLimit ==
    [][\A s \in SchedulerIds :
          (sched[s].pc = "poll" /\ sched'[s].pc = "txn")
              => LET q == Ids(sched'[s].claimed_ids)
                     free == {m \in MonitorIds : /\ monitors[m].enabled
                                                 /\ monitors[m].next_run_at <= now
                                                 /\ \A o \in SchedulerIds : m \notin LockedBy(o)}
                 IN  /\ Cardinality(q) <= max_concurrency * 4
                     /\ Cardinality(q) = Len(sched'[s].claimed_ids)
                     /\ q \subseteq free
                     /\ Cardinality(q) < max_concurrency * 4 => q = free
                     /\ \A m \in q, x \in free \ q :
                           monitors[m].next_run_at <= monitors[x].next_run_at
      ]_vars

\* C34 witness: a claim iteration holds max_concurrency * 4 rows while more
\* monitors are due, and another scheduler's iteration holds due rows that
\* the first left.
C34_Witness ==
    \E s \in SchedulerIds, o \in SchedulerIds :
        /\ s # o
        /\ sched[s].pc = "txn" /\ sched[o].pc = "txn"
        /\ Len(sched[s].claimed_ids) = max_concurrency * 4
        /\ sched[o].claimed_ids # << >>
        /\ \A m \in LockedBy(o) : monitors[m].next_run_at <= sched[o].now

\* the row with the two columns of a claim blanked
BesidesClaim(row) == [row EXCEPT !.next_run_at = NULL, !.updated_at = NULL]

\* C35: a claim iteration changes only next_run_at and updated_at of the
\* monitors it returns: monitors not returned, every other field of the
\* returned ones and all MonitorCheck rows are unchanged, and an iteration
\* that selects no rows writes nothing.
C35_ClaimWritesTwoColumns ==
    [][\A s \in SchedulerIds :
          (sched'[s] # sched[s] \/ passed_over' # passed_over)
              => /\ monitor_checks' = monitor_checks
                 /\ \A m \in MonitorIds :
                       IF sched[s].pc = "txn" /\ sched'[s].pc = "poll" /\ m \in LockedBy(s)
                       THEN BesidesClaim(monitors'[m]) = BesidesClaim(monitors[m])
                       ELSE sched'[s] # sched[s] => monitors'[m] = monitors[m]
      ]_vars

\* C35 witness: a monitor with a failed check on record was claimed again,
\* and the row stands as that claim left it: the lease and the claim's time
\* in the two columns, the counter and the last outcome of the check in the
\* others.
C35_Witness ==
    \E m \in MonitorIds :
        /\ Len(claims[m]) >= 2
        /\ claims[m][Len(claims[m])].nchecks >= 1
        /\ monitors[m].next_run_at = claims[m][Len(claims[m])].after
        /\ monitors[m].updated_at = claims[m][Len(claims[m])].at
        /\ monitors[m].consecutive_failures >= 1
        /\ monitors[m].last_outcome = "down"
        /\ monitors[m].last_checked_at < monitors[m].updated_at

\* the latest claim of the monitor was handed to a worker
Dispatched(m) ==
    /\ claims[m] # << >>
    /\ claims[m][Len(claims[m])].dispatched
    /\ \E t \in tasks : t.monitor_id = m /\ t.claim = Len(claims[m])

\* C36: no starvation.  With scheduler loops that keep running, every
\* enabled monitor that is due is eventually claimed and dispatched, even when
\* more than L = max_concurrency * 4 monitors are due at once: whenever
\* monitors are due, a state follows in which every monitor has been claimed
\* and dispatched or has not been due yet.
C36_NoStarvation ==
    (\E m \in MonitorIds : Due(m, now))
        ~> (\A m \in MonitorIds :
               \/ Dispatched(m) /\ ~Due(m, now)
               \/ claims[m] = << >> /\ monitors[m].next_run_at > now)

\* C36 witness: more than L monitors were due at once and more than L of
\* them have been claimed and dispatched, the last of them by an iteration
\* that followed one which took L.
C36_Witness ==
    /\ Cardinality({t.monitor_id : t \in tasks}) > max_concurrency * 4
    /\ \A s \in SchedulerIds : sched[s].pc = "poll"
    /\ \A m \in MonitorIds : monitors[m].next_run_at <= now => ~monitors[m].enabled

\* C37: after every commit by the check executor the monitor's last_outcome
\* and last_checked_at (and with them last_status_code and last_latency_ms,
\* assigned and flushed as last_outcome is) equal the outcome and occurred_at
\* of the MonitorCheck row inserted in that same commit.
C37_RowMirrorsInsertedCheck ==
    [][\A m \in MonitorIds :
          (/\ Len(monitor_checks'[m]) = Len(monitor_checks[m]) + 1
           /\ monitor_checks'[m][Len(monitor_checks'[m])].claim # 0)
              => LET inserted == monitor_checks'[m][Len(monitor_checks'[m])]
                 IN  /\ monitors'[m].last_outcome = inserted.outcome
                     /\ monitors'[m].last_checked_at = inserted.occurred_at
      ]_vars

====
